---- MODULE Spec2Model ----
(***************************************************************************)
(* State-machine model of the futuristic crate.                            *)
(*                                                                         *)
(* The zip-latest stream combinators: the pairwise ZipLatestWith /         *)
(* ZipLatest and the N-ary ZipLatestWithAll / ZipLatestAll, each driven by *)
(* poll_next calls against sources that answer a poll with an item, with   *)
(* the end of the stream, or with not-ready.  The sources are either free  *)
(* (they become ready on their own) or scripted as yield_on_none builds    *)
(* them in the tests.                                                      *)
(*                                                                         *)
(* The Fork sink, driven by a caller that follows the Sink protocol,       *)
(* against two destination sinks that may answer any operation with        *)
(* success, not-ready or an error.                                         *)
(*                                                                         *)
(* The YieldNow future, polled alone or raced by select against a future   *)
(* that is ready at once.                                                  *)
(***************************************************************************)
EXTENDS Integers, Sequences, FiniteSets, TLC

\* Bound: the number of items one source produces before it can only end.
MaxVals == 3

\* Bound: the largest number of sources handed to the N-ary combinator.
MaxStreams == 2

\* Bound: the number of items the caller sends into the fork sink.
MaxItems == 3

\* Bound: the number of times a YieldNow future is polled.
MaxPolls == 3

VARIABLES
    sut,          \* which combinator was constructed
    nstreams,     \* the number of sources it owns
    src_count,    \* per source: the number of items it has produced so far
    src_st,       \* per source: "pending", "item", "end" (what the next poll
                  \*   finds), or "done" (its end has been returned to a poll)
    script,       \* per scripted source: what the polls after the next one
                  \*   find, in order (<<>> when the sources are not scripted)
    collected,    \* scripted run: the Vec that collect() has gathered so far
    state,        \* ZipLatestWith::state
    other_state,  \* ZipLatestWith::other_state
    stream_done,  \* ZipLatestWith::stream (Fuse<A>) is_done()
    other_done,   \* ZipLatestWith::other_stream (Fuse<B>) is_done()
    inner,        \* ZipLatestWithAll::inner: "Fill" or "Filled"
    join_all,     \* Inner::Fill: the JoinAll's element per source
    items,        \* Filled::items
    next_items,   \* Filled::next_items: the IndexedStream futures in flight
    ready_queue,  \* scripted run: the ready-to-run queue of next_items, the
                  \*   futures woken or pushed and not yet polled, in order
    terminated,   \* the is_terminated flag of Filled::next_items
    res,          \* what the last poll_next call returned
    out,          \* the items the last poll_next call emitted, in order
    last_emit,    \* the last item emitted by any call so far (<<>> if none)
    call,         \* the last call's dealings with the sources
    after_none,   \* the last call was made after a call had returned
                  \*   Ready(None)
    refreshed,    \* pairwise: the two freshness states after the last
                  \*   call's refresh attempts, before its match
    fork_state,   \* Fork::state: buffer, left_closed, right_closed
    left_sink,    \* Fork::left_sink: the items handed to its start_send, in
                  \*   order, and what has passed through its poll_close
    right_sink,   \* Fork::right_sink, likewise
    sent,         \* the caller of the fork: for each item it has sent, in
                  \*   order, the side the switch gave it
    permit,       \* the caller holds a Ready(Ok) of poll_ready not yet used
                  \*   for a start_send
    closing,      \* the caller has begun to close the fork
    panicked,     \* the assertion of Fork::start_send has failed
    fork_call,    \* the last call of the fork: the operation, its result,
                  \*   and the destination operations it invoked, in order
    yield_now,    \* YieldNow.0
    polls,        \* the number of polls of the YieldNow so far
    wakes,        \* the number of wake requests the YieldNow has made so far
    yield_res,    \* what the last poll of the YieldNow returned
    select_order, \* how the YieldNow is driven: "alone", or raced by select
                  \*   in second place ("ready_first") or first ("yield_first")
    select_out    \* what the last poll of the select returned

vars == <<sut, nstreams, src_count, src_st, script, collected, state, other_state, stream_done,
          other_done, inner, join_all, items, next_items, ready_queue,
          terminated, res,
          out,
          last_emit, call, after_none, refreshed, fork_state, left_sink, right_sink,
          sent, permit, closing, panicked, fork_call, yield_now, polls,
          wakes, yield_res, select_order, select_out>>

pair_vars == <<state, other_state, stream_done, other_done, refreshed>>

all_vars == <<inner, join_all, items, next_items, ready_queue, terminated>>

sink_vars == <<fork_state, left_sink, right_sink, sent, permit, closing,
               panicked, fork_call>>

yield_vars == <<yield_now, polls, wakes, yield_res, select_order, select_out>>

stream_vars == <<nstreams, src_count, src_st, script, collected, pair_vars,
                 all_vars, res, out, last_emit, call, after_none>>

Sources == 1..MaxStreams

\* The absent value of a slot that holds none.
NoVal == <<0, 0>>

\* The k-th item of source i.  The combinators never inspect an item, so
\* tagging each item with its source and its rank loses no behaviour.
Item(i, k) == <<i, k>>

----------------------------------------------------------------------------
(* Sources *)

\* Stream::poll_next of source i: Poll<Option<Item>>.
SourcePoll(i) ==
    CASE src_st[i] = "item" -> [kind |-> "Some", v |-> Item(i, src_count[i] + 1)]
      [] src_st[i] = "pending" -> [kind |-> "Pending", v |-> NoVal]
      [] OTHER -> [kind |-> "None", v |-> NoVal]

\* Source i is a yield_on_none stream: its polls follow a script, and each
\* not-ready poll wakes the poller at once.
Scripted(i) == i \in DOMAIN script

\* What the poll after the next one finds, for a scripted source whose
\* remaining script is sc: the iterator's end once the script is used up.
NextEntry(sc) == IF sc = <<>> THEN "end" ELSE Head(sc)

\* The sources after one poll_next call that polled exactly the sources in P,
\* each once.
CountAfter(P) ==
    [i \in Sources |->
        IF i \in P /\ src_st[i] = "item" THEN src_count[i] + 1 ELSE src_count[i]]

StAfter(P) ==
    [i \in Sources |->
        IF i \notin P THEN src_st[i]
        ELSE CASE src_st[i] \in {"end", "done"} -> "done"
               [] Scripted(i) -> NextEntry(script[i])
               [] src_st[i] = "item" -> "pending"
               [] OTHER -> src_st[i]]

ScriptAfter(P) ==
    [i \in DOMAIN script |->
        IF i \in P /\ src_st[i] \in {"item", "pending"} /\ script[i] # <<>>
        THEN Tail(script[i]) ELSE script[i]]

\* What a poll_next call that took arm `arm` and polled exactly the sources
\* in P saw of them: which delivered an item, which their end.
Dealings(arm, P) ==
    [arm |-> arm, polled |-> P,
     advanced |-> {i \in P : src_st[i] = "item"},
     ended |-> {i \in P : src_st[i] = "end"}]

\* The sources the combinator still owns: the pairwise one keeps both streams
\* for its lifetime; the N-ary one drops a stream with the future that
\* returned its end, and all of them when the fill fails.
Owned ==
    IF sut = "zip_latest_with" THEN {1, 2}
    ELSE IF inner = "Fill" THEN 1..nstreams
    ELSE {e.s : e \in next_items}

\* A source that was not ready gets an item or reaches its end (and wakes its
\* poller).
SourceStep(i) ==
    /\ i \in Owned
    /\ ~Scripted(i)
    /\ src_st[i] = "pending"
    /\ \E k \in {"item", "end"} :
          /\ k = "item" => src_count[i] < MaxVals
          /\ src_st' = [src_st EXCEPT ![i] = k]
    /\ UNCHANGED <<sut, nstreams, src_count, script, collected, pair_vars,
                   all_vars, res, out, last_emit, call, after_none,
                   sink_vars, yield_vars>>

----------------------------------------------------------------------------
(* Pairwise combinator: ZipLatestWith (ZipLatest has the same poll_next) *)

Nothing == [tag |-> "Nothing", v |-> NoVal]

New(x) == [tag |-> "New", v |-> x]

Yielded(x) == [tag |-> "Yielded", v |-> x]

\* needs_poll also asking for a value while a New one is held.
needs_poll_always(s) == s.tag \in {"Nothing", "Yielded", "New"}

needs_poll(s) == s.tag \in {"Nothing", "Yielded"}

\* The caller's combine function; the pair itself is the most general one.
combine(a, b) == <<a, b>>

\* Fuse::poll_next: an ended stream is not polled again.
FusePoll(done, i) ==
    IF done THEN [kind |-> "None", v |-> NoVal] ELSE SourcePoll(i)

\* Refresh polling the source whatever the state holds.
RefreshAlways(s, done, i) ==
    LET r == FusePoll(done, i) IN
    [state |-> IF r.kind = "Some" THEN New(r.v) ELSE s,
     done |-> done \/ r.kind = "None",
     polled |-> IF done THEN {} ELSE {i}]

\* One refresh attempt (zip_latest_with.rs 58-62, 63-67).
Refresh(s, done, i) ==
    IF needs_poll(s)
    THEN LET r == FusePoll(done, i) IN
         [state |-> IF r.kind = "Some" THEN New(r.v) ELSE s,
          done |-> done \/ r.kind = "None",
          polled |-> IF done THEN {} ELSE {i}]
    ELSE [state |-> s, done |-> done, polled |-> {}]

\* EmitArm without its third pattern.
EmitArmNoYieldedNew(a, b) ==
    \/ a.tag = "New" /\ b.tag = "New"
    \/ a.tag = "New" /\ b.tag = "Yielded"

\* The first arm's patterns: (New, New) | (New, Yielded) | (Yielded, New).
EmitArm(a, b) ==
    \/ a.tag = "New" /\ b.tag = "New"
    \/ a.tag = "New" /\ b.tag = "Yielded"
    \/ a.tag = "Yielded" /\ b.tag = "New"

\* Ended leaving both sides as if each had yielded a first item.
EndedHolding ==
    [res |-> "None", out |-> <<>>,
     state |-> Yielded(Item(1, 1)), other_state |-> Yielded(Item(2, 1))]

Ended == [res |-> "None", out |-> <<>>, state |-> Nothing, other_state |-> Nothing]

\* Emitting marking only the first side as yielded.
EmittingLeavesOther(a, b) ==
    [res |-> "Some", out |-> <<combine(a.v, b.v)>>,
     state |-> Yielded(a.v), other_state |-> b]

Emitting(a, b) ==
    [res |-> "Some", out |-> <<combine(a.v, b.v)>>,
     state |-> Yielded(a.v), other_state |-> Yielded(b.v)]

\* Waiting dropping what the two sides hold.
WaitingDropping(a, b) ==
    [res |-> "Pending", out |-> <<>>, state |-> Nothing, other_state |-> Nothing]

Waiting(a, b) == [res |-> "Pending", out |-> <<>>, state |-> a, other_state |-> b]

\* Match without the arm for the other stream ending with nothing.
MatchNoOtherNothingArm(a, b, da, db) ==
    IF EmitArm(a, b) THEN Emitting(a, b)
    ELSE IF a.tag = "Nothing" /\ da THEN Ended
    ELSE IF da /\ db THEN Ended
    ELSE Waiting(a, b)

\* Match without the arm for both streams having ended.
MatchNoBothDoneArm(a, b, da, db) ==
    IF EmitArm(a, b) THEN Emitting(a, b)
    ELSE IF a.tag = "Nothing" /\ da THEN Ended
    ELSE IF b.tag = "Nothing" /\ db THEN Ended
    ELSE Waiting(a, b)

\* Match whose last guard is satisfied by either stream having ended.
MatchEitherDone(a, b, da, db) ==
    IF EmitArm(a, b) THEN Emitting(a, b)
    ELSE IF a.tag = "Nothing" /\ da THEN Ended
    ELSE IF b.tag = "Nothing" /\ db THEN Ended
    ELSE IF da \/ db THEN Ended
    ELSE Waiting(a, b)

\* The match of poll_next over the two refreshed states.
Match(a, b, da, db) ==
    IF EmitArm(a, b) THEN Emitting(a, b)
    ELSE IF a.tag = "Nothing" /\ da THEN Ended
    ELSE IF b.tag = "Nothing" /\ db THEN Ended
    ELSE IF da /\ db THEN Ended
    ELSE Waiting(a, b)

\* is_terminated answering from the Fuse flags alone.
is_terminated_on_done == stream_done \/ other_done

\* FusedStream::is_terminated of ZipLatestWith.
is_terminated ==
    \/ state.tag = "Nothing" /\ stream_done
    \/ other_state.tag = "Nothing" /\ other_done

\* The scripted run gathers every item the stream returns with collect().
Collect(o) == IF script # <<>> THEN collected \o o ELSE collected

\* ZipLatestWith::poll_next.
PairPoll ==
    /\ sut = "zip_latest_with"
    /\ LET ra == Refresh(state, stream_done, 1)
           rb == Refresh(other_state, other_done, 2)
           m == Match(ra.state, rb.state, ra.done, rb.done)
           P == ra.polled \cup rb.polled
       IN /\ state' = m.state
          /\ other_state' = m.other_state
          /\ stream_done' = ra.done
          /\ other_done' = rb.done
          /\ refreshed' = <<ra.state, rb.state>>
          /\ res' = m.res
          /\ out' = m.out
          /\ last_emit' = IF m.out = <<>> THEN last_emit ELSE <<m.out[Len(m.out)]>>
          /\ call' = Dealings("Pair", P)
          /\ src_count' = CountAfter(P)
          /\ src_st' = StAfter(P)
          /\ script' = ScriptAfter(P)
          /\ collected' = Collect(m.out)
    /\ after_none' = (res = "None")
    /\ UNCHANGED <<sut, nstreams, all_vars, sink_vars, yield_vars>>

----------------------------------------------------------------------------
(* N-ary combinator: ZipLatestWithAll (ZipLatestAll has the same poll_next) *)

\* The caller's combine function over the slice of latest items; the
\* snapshot itself is the most general one.
combine_all(its) == its

Future == [tag |-> "Future", v |-> NoVal]

\* StreamFuture::poll inside the JoinAll: one poll of the stream, completing
\* with (Some(item), stream) or (None, stream).
StreamFuturePoll(i) ==
    LET r == SourcePoll(i) IN
    IF r.kind = "Pending" THEN Future ELSE [tag |-> r.kind, v |-> r.v]

\* JoinAllPoll polling completed elements again.
JoinAllPollRepolls ==
    [i \in 1..nstreams |->
        IF SourcePoll(i).kind = "Pending" THEN join_all[i] ELSE StreamFuturePoll(i)]

\* JoinAll::poll: every element that has not completed is polled once;
\* a completed element keeps its output and is not polled again.
JoinAllPoll ==
    [i \in 1..nstreams |->
        IF join_all[i].tag = "Future" THEN StreamFuturePoll(i) ELSE join_all[i]]

\* IndexedStream::new(i, stream): the stream of source s tagged with index i.
IndexedStream(i, s) == [i |-> i, s |-> s]

\* TryFold passing over an element that ended empty instead of giving up.
RECURSIVE TryFoldSkipsNone(_, _, _, _)
TryFoldSkipsNone(elems, k, its, nx) ==
    IF k > Len(elems) THEN [ok |-> TRUE, items |-> its, next_items |-> nx]
    ELSE IF elems[k].tag = "None" THEN TryFoldSkipsNone(elems, k + 1, its, nx)
    ELSE TryFoldSkipsNone(elems, k + 1, Append(its, elems[k].v),
                          nx \cup {IndexedStream(Len(its) + 1, k)})

\* TryFold giving up when it has folded no item at all.
RECURSIVE TryFoldNeedsAnItem(_, _, _, _)
TryFoldNeedsAnItem(elems, k, its, nx) ==
    IF k > Len(elems) THEN [ok |-> its # <<>>, items |-> its, next_items |-> nx]
    ELSE IF elems[k].tag = "None" THEN [ok |-> FALSE, items |-> <<>>, next_items |-> {}]
    ELSE TryFoldNeedsAnItem(elems, k + 1, Append(its, elems[k].v),
                            nx \cup {IndexedStream(Len(its) + 1, k)})

\* TryFold giving up with the items and futures folded so far.
RECURSIVE TryFoldKeepsFolded(_, _, _, _)
TryFoldKeepsFolded(elems, k, its, nx) ==
    IF k > Len(elems) THEN [ok |-> TRUE, items |-> its, next_items |-> nx]
    ELSE IF elems[k].tag = "None" THEN [ok |-> FALSE, items |-> its, next_items |-> nx]
    ELSE TryFoldKeepsFolded(elems, k + 1, Append(its, elems[k].v),
                            nx \cup {IndexedStream(Len(its) + 1, k)})

\* The try_fold over the JoinAll's outputs, from element k on, in input order.
RECURSIVE TryFold(_, _, _, _)
TryFold(elems, k, its, nx) ==
    IF k > Len(elems) THEN [ok |-> TRUE, items |-> its, next_items |-> nx]
    ELSE IF elems[k].tag = "None" THEN [ok |-> FALSE, items |-> <<>>, next_items |-> {}]
    ELSE TryFold(elems, k + 1, Append(its, elems[k].v),
                 nx \cup {IndexedStream(Len(its) + 1, k)})

\* PushOrder with the futures enqueued last first.
PushOrderReversed(nx) ==
    [k \in 1..Cardinality(nx) |-> CHOOSE e \in nx : e.i = Cardinality(nx) + 1 - k]

\* FuturesUnordered::push enqueues each future as it is pushed; the
\* try_fold pushes in input order.
PushOrder(nx) == [k \in 1..Cardinality(nx) |-> CHOOSE e \in nx : e.i = k]

\* poll_next, arm Inner::Fill.
FillPoll ==
    /\ inner = "Fill"
    /\ LET P == {i \in 1..nstreams : join_all[i].tag = "Future"}
           ja == JoinAllPoll
           f == TryFold(ja, 1, <<>>, {})
           o == IF f.ok THEN <<combine_all(f.items)>> ELSE <<>>
       IN /\ call' = Dealings("Fill", P)
          /\ src_count' = CountAfter(P)
          /\ src_st' = StAfter(P)
          /\ script' = ScriptAfter(P)
          /\ IF \E i \in 1..nstreams : ja[i].tag = "Future"
             THEN /\ join_all' = ja
                  /\ res' = "Pending"
                  /\ out' = <<>>
                  /\ UNCHANGED <<inner, items, next_items, ready_queue,
                                 terminated, last_emit, collected>>
             ELSE /\ join_all' = <<>>
                  /\ inner' = "Filled"
                  /\ items' = f.items
                  /\ next_items' = f.next_items
                  /\ ready_queue' = IF script # <<>> THEN PushOrder(f.next_items)
                                    ELSE <<>>
                  /\ terminated' = FALSE
                  /\ res' = IF f.ok THEN "Some" ELSE "None"
                  /\ out' = o
                  /\ last_emit' = IF o = <<>> THEN last_emit ELSE <<o[Len(o)]>>
                  /\ collected' = Collect(o)

\* The orders in which FuturesUnordered can hand over completions during
\* one call: any arrangement of any subset of the futures whose stream has
\* an item or its end to deliver.
RECURSIVE Arrangements(_)
Arrangements(S) ==
    {<<>>} \cup UNION {{<<e>> \o q : q \in Arrangements(S \ {e})} : e \in S}

\* IndexedStream::poll_next through StreamFuture: (Some((i, head)), tail) or
\* (None, _).
IndexedPoll(e) ==
    LET r == SourcePoll(e.s) IN [kind |-> r.kind, i |-> e.i, head |-> r.v]

\* Drain storing each head at its place in the order of arrival.
RECURSIVE DrainByArrival(_, _, _, _, _)
DrainByArrival(q, k, its, nx, yielded) ==
    IF k > Len(q) THEN [items |-> its, next_items |-> nx, yielded |-> yielded]
    ELSE LET r == IndexedPoll(q[k]) IN
         IF r.kind = "Some"
         THEN DrainByArrival(q, k + 1, [its EXCEPT ![k] = r.head], nx \ {q[k]},
                             yielded \cup {q[k]})
         ELSE DrainByArrival(q, k + 1, its, nx \ {q[k]}, yielded)

\* Drain keeping the future of a stream that has ended.
RECURSIVE DrainKeepsEnded(_, _, _, _, _)
DrainKeepsEnded(q, k, its, nx, yielded) ==
    IF k > Len(q) THEN [items |-> its, next_items |-> nx, yielded |-> yielded]
    ELSE LET r == IndexedPoll(q[k]) IN
         IF r.kind = "Some"
         THEN DrainKeepsEnded(q, k + 1, [its EXCEPT ![r.i] = r.head], nx \ {q[k]},
                              yielded \cup {q[k]})
         ELSE DrainKeepsEnded(q, k + 1, its, nx, yielded)

\* Drain forgetting the tail of a stream that delivered.
RECURSIVE DrainDropsTail(_, _, _, _, _)
DrainDropsTail(q, k, its, nx, yielded) ==
    IF k > Len(q) THEN [items |-> its, next_items |-> nx, yielded |-> yielded]
    ELSE LET r == IndexedPoll(q[k]) IN
         IF r.kind = "Some"
         THEN DrainDropsTail(q, k + 1, [its EXCEPT ![r.i] = r.head], nx \ {q[k]},
                             yielded)
         ELSE DrainDropsTail(q, k + 1, its, nx \ {q[k]}, yielded)

\* Drain not storing the head a completion brings.
RECURSIVE DrainForgetsHead(_, _, _, _, _)
DrainForgetsHead(q, k, its, nx, yielded) ==
    IF k > Len(q) THEN [items |-> its, next_items |-> nx, yielded |-> yielded]
    ELSE LET r == IndexedPoll(q[k]) IN
         IF r.kind = "Some"
         THEN DrainForgetsHead(q, k + 1, its, nx \ {q[k]}, yielded \cup {q[k]})
         ELSE DrainForgetsHead(q, k + 1, its, nx \ {q[k]}, yielded)

\* The loop of arm Inner::Filled over the completions in order q.
RECURSIVE Drain(_, _, _, _, _)
Drain(q, k, its, nx, yielded) ==
    IF k > Len(q) THEN [items |-> its, next_items |-> nx, yielded |-> yielded]
    ELSE LET r == IndexedPoll(q[k]) IN
         IF r.kind = "Some"
         THEN Drain(q, k + 1, [its EXCEPT ![r.i] = r.head], nx \ {q[k]},
                    yielded \cup {q[k]})
         ELSE Drain(q, k + 1, its, nx \ {q[k]}, yielded)

\* Snapshot emitting once per stream that advanced.
SnapshotPerStream(its, yielded) ==
    [k \in 1..Cardinality(yielded) |-> combine_all(its)]

\* The snapshot a call of arm Inner::Filled emits.
Snapshot(its, yielded) ==
    IF yielded # {} THEN <<combine_all(its)>> ELSE <<>>

\* The is_terminated flag of next_items once the loop has run: the
\* FuturesUnordered sets it when its poll_next returns Ready(None) and
\* clears it when a future is pushed, as extend does for each of yielded.
Extended(flag, r, yielded) ==
    IF yielded # {} THEN FALSE ELSE IF r = "None" THEN TRUE ELSE flag

\* poll_next, arm Inner::Filled.
FilledPoll ==
    /\ inner = "Filled"
    /\ script = <<>>
    /\ \E q \in Arrangements({e \in next_items : src_st[e.s] \in {"item", "end"}}) :
          LET d == Drain(q, 1, items, next_items, {})
              o == Snapshot(d.items, d.yielded)
              P == {q[k].s : k \in 1..Len(q)}
          IN /\ items' = d.items
             /\ next_items' = d.next_items \cup d.yielded
             /\ terminated' = Extended(terminated,
                                       IF d.next_items = {} THEN "None"
                                       ELSE "Pending", d.yielded)
             /\ out' = o
             /\ res' = IF o # <<>> THEN "Some"
                       ELSE IF d.next_items = {} THEN "None" ELSE "Pending"
             /\ last_emit' = IF o = <<>> THEN last_emit ELSE <<o[Len(o)]>>
             /\ call' = Dealings("Filled", P)
             /\ src_count' = CountAfter(P)
             /\ src_st' = StAfter(P)
             /\ UNCHANGED <<inner, join_all, ready_queue, script, collected>>

\* The source behind future e after one poll of it that found k.
Polled(S, e, k) ==
    [S EXCEPT !.queue = Tail(@),
              !.polled = @ \cup {e.s},
              !.st[e.s] = IF k \in {"end", "done"} THEN "done"
                          ELSE NextEntry(S.script[e.s]),
              !.script[e.s] = IF @ = <<>> \/ k \in {"end", "done"}
                              THEN @ ELSE Tail(@)]

\* One FuturesUnordered::poll_next over scripted sources.  It polls the
\* futures of the ready queue in order.  A future that is not ready has
\* woken itself during the poll and goes back to the end of the queue; the
\* call then returns Pending if two futures have done so or if it has
\* polled as many futures as it held when it began (len).  A completed
\* future leaves the set.  With the queue empty the call returns Ready(None)
\* if the set is empty and Pending otherwise.
RECURSIVE FuturesUnorderedPoll(_, _, _, _)
FuturesUnorderedPoll(S, len, polled, woken) ==
    IF S.queue = <<>>
    THEN [S EXCEPT !.r = IF S.next_items = {} THEN "None" ELSE "Pending"]
    ELSE CHOOSE R \in
           {CASE k = "pending" ->
                   IF woken + 1 >= 2 \/ polled + 1 = len
                   THEN [A EXCEPT !.queue = Append(@, e), !.r = "Pending"]
                   ELSE FuturesUnorderedPoll([A EXCEPT !.queue = Append(@, e)],
                                             len, polled + 1, woken + 1)
              [] k = "item" ->
                   [A EXCEPT !.r = "Some", !.e = e,
                             !.head = Item(e.s, A.count[e.s] + 1),
                             !.count[e.s] = @ + 1,
                             !.next_items = @ \ {e},
                             !.advanced = @ \cup {e.s}]
              [] OTHER ->
                   [A EXCEPT !.r = "Ended",
                             !.next_items = @ \ {e},
                             !.ended = @ \cup {e.s}]
            : <<A, e, k>> \in {<<Polled(S, Head(S.queue), S.st[Head(S.queue).s]),
                                 Head(S.queue), S.st[Head(S.queue).s]>>}} : TRUE

\* FilledLoop putting the tail of a stream that delivered back into
\* next_items at once.
RECURSIVE FilledLoopResubmitting(_)
FilledLoopResubmitting(S) ==
    CHOOSE R \in
      {CASE T.r = "Some" ->
              FilledLoopResubmitting(
                  [T EXCEPT !.items[T.e.i] = T.head,
                            !.yielded = IF T.e \in {@[k] : k \in DOMAIN @}
                                        THEN @ ELSE Append(@, T.e),
                            !.next_items = @ \cup {T.e},
                            !.queue = Append(@, T.e)])
         [] T.r = "Ended" -> FilledLoopResubmitting(T)
         [] OTHER -> [T EXCEPT !.next_items = @ \ {T.yielded[k] : k \in DOMAIN T.yielded},
                               !.queue = SelectSeq(@, LAMBDA e :
                                           e \notin {T.yielded[k] : k \in DOMAIN T.yielded})]
       : T \in {FuturesUnorderedPoll(S, Cardinality(S.next_items), 0, 0)}} : TRUE

\* The loop of arm Inner::Filled over scripted sources: one
\* FuturesUnordered::poll_next per iteration, until it returns Ready(None)
\* or Pending.
RECURSIVE FilledLoop(_)
FilledLoop(S) ==
    CHOOSE R \in
      {CASE T.r = "Some" ->
              FilledLoop([T EXCEPT !.items[T.e.i] = T.head,
                                   !.yielded = Append(@, T.e)])
         [] T.r = "Ended" -> FilledLoop(T)
         [] OTHER -> T
       : T \in {FuturesUnorderedPoll(S, Cardinality(S.next_items), 0, 0)}} : TRUE

\* poll_next, arm Inner::Filled, over scripted sources.
ScriptedFilledPoll ==
    /\ inner = "Filled"
    /\ script # <<>>
    /\ \E T \in {FilledLoop([queue |-> ready_queue, next_items |-> next_items,
                            items |-> items, yielded |-> <<>>,
                            count |-> src_count, st |-> src_st, script |-> script,
                            polled |-> {}, advanced |-> {}, ended |-> {},
                            r |-> "", e |-> IndexedStream(0, 0), head |-> NoVal])} :
          LET Y == {T.yielded[k] : k \in 1..Len(T.yielded)}
              o == Snapshot(T.items, Y)
          IN /\ items' = T.items
             /\ next_items' = T.next_items \cup Y
             /\ ready_queue' = T.queue \o T.yielded
             /\ terminated' = Extended(terminated, T.r, Y)
             /\ out' = o
             /\ res' = IF o # <<>> THEN "Some"
                       ELSE IF T.r = "None" THEN "None" ELSE "Pending"
             /\ last_emit' = IF o = <<>> THEN last_emit ELSE <<o[Len(o)]>>
             /\ collected' = Collect(o)
             /\ call' = [arm |-> "Filled", polled |-> T.polled,
                         advanced |-> T.advanced, ended |-> T.ended]
             /\ src_count' = T.count
             /\ src_st' = T.st
             /\ script' = T.script
             /\ UNCHANGED <<inner, join_all>>

\* FusedStream::is_terminated of ZipLatestWithAll.
ZipLatestWithAllIsTerminated == IF inner = "Filled" THEN terminated ELSE FALSE

\* ZipLatestWithAll::poll_next.
AllPoll ==
    /\ sut = "zip_latest_with_all"
    /\ (FillPoll \/ FilledPoll \/ ScriptedFilledPoll)
    /\ after_none' = (res = "None")
    /\ UNCHANGED <<sut, nstreams, pair_vars, sink_vars, yield_vars>>

----------------------------------------------------------------------------
(* ZipLatest and ZipLatestAll: the combinators that emit copies of the     *)
(* values themselves.  Each operator below gives, for an object holding    *)
(* the current field values, what one poll_next call of it does.           *)

\* Clone::clone of an item.
clone(x) == x

\* StreamState::needs_poll of zip_latest.rs.
ZipLatestNeedsPoll(s) ==
    CASE s.tag = "Nothing" \/ s.tag = "Yielded" -> TRUE
      [] s.tag = "New" -> FALSE

\* One refresh attempt of ZipLatest::poll_next.
ZipLatestRefresh(s, done, i) ==
    IF ZipLatestNeedsPoll(s)
    THEN LET r == FusePoll(done, i) IN
         [state |-> IF r.kind = "Some" THEN New(r.v) ELSE s,
          done |-> done \/ r.kind = "None",
          polled |-> IF done THEN {} ELSE {i}]
    ELSE [state |-> s, done |-> done, polled |-> {}]

\* ZipLatestMatch handing each side the other side's value.
ZipLatestMatchCrossed(a, b, da, db) ==
    IF \/ a.tag = "New" /\ b.tag = "New"
       \/ a.tag = "New" /\ b.tag = "Yielded"
       \/ a.tag = "Yielded" /\ b.tag = "New"
    THEN <<Yielded(clone(b.v)), Yielded(clone(a.v)),
           [res |-> "Some", out |-> << <<a.v, b.v>> >>]>>
    ELSE IF a.tag = "Nothing" /\ da
    THEN <<Nothing, Nothing, [res |-> "None", out |-> <<>>]>>
    ELSE IF b.tag = "Nothing" /\ db
    THEN <<Nothing, Nothing, [res |-> "None", out |-> <<>>]>>
    ELSE IF da /\ db
    THEN <<Nothing, Nothing, [res |-> "None", out |-> <<>>]>>
    ELSE <<a, b, [res |-> "Pending", out |-> <<>>]>>

\* The match of ZipLatest::poll_next: (new_state, new_other_state, res).
ZipLatestMatch(a, b, da, db) ==
    IF \/ a.tag = "New" /\ b.tag = "New"
       \/ a.tag = "New" /\ b.tag = "Yielded"
       \/ a.tag = "Yielded" /\ b.tag = "New"
    THEN <<Yielded(clone(a.v)), Yielded(clone(b.v)),
           [res |-> "Some", out |-> << <<a.v, b.v>> >>]>>
    ELSE IF a.tag = "Nothing" /\ da
    THEN <<Nothing, Nothing, [res |-> "None", out |-> <<>>]>>
    ELSE IF b.tag = "Nothing" /\ db
    THEN <<Nothing, Nothing, [res |-> "None", out |-> <<>>]>>
    ELSE IF da /\ db
    THEN <<Nothing, Nothing, [res |-> "None", out |-> <<>>]>>
    ELSE <<a, b, [res |-> "Pending", out |-> <<>>]>>

\* ZipLatest::poll_next.
ZipLatestPollNext ==
    LET ra == ZipLatestRefresh(state, stream_done, 1)
        rb == ZipLatestRefresh(other_state, other_done, 2)
        m == ZipLatestMatch(ra.state, rb.state, ra.done, rb.done)
    IN [state |-> m[1], other_state |-> m[2],
        stream_done |-> ra.done, other_done |-> rb.done,
        res |-> m[3].res, out |-> m[3].out,
        polled |-> ra.polled \cup rb.polled]

\* The try_fold of ZipLatestAll::poll_next.
RECURSIVE ZipLatestAllTryFold(_, _, _, _)
ZipLatestAllTryFold(elems, k, its, nx) ==
    IF k > Len(elems) THEN [ok |-> TRUE, items |-> its, next_items |-> nx]
    ELSE IF elems[k].tag = "None" THEN [ok |-> FALSE, items |-> <<>>, next_items |-> {}]
    ELSE ZipLatestAllTryFold(elems, k + 1, Append(its, elems[k].v),
                             nx \cup {IndexedStream(Len(its) + 1, k)})

\* FusedStream::is_terminated of ZipLatest, for an object holding the
\* current field values.
ZipLatestIsTerminated ==
    \/ state.tag = "Nothing" /\ stream_done
    \/ other_state.tag = "Nothing" /\ other_done

\* FusedStream::is_terminated of ZipLatestAll, for an object holding the
\* current field values.
ZipLatestAllIsTerminated == IF inner = "Filled" THEN terminated ELSE FALSE

\* ZipLatestAll::poll_next, arm Inner::Fill.
ZipLatestAllFill ==
    LET ja == JoinAllPoll
        f == ZipLatestAllTryFold(ja, 1, <<>>, {})
    IN IF \E i \in 1..nstreams : ja[i].tag = "Future"
       THEN [res |-> "Pending", out |-> <<>>, inner |-> "Fill",
             items |-> items, next_items |-> next_items]
       ELSE [res |-> IF f.ok THEN "Some" ELSE "None",
             out |-> IF f.ok THEN <<clone(f.items)>> ELSE <<>>,
             inner |-> "Filled", items |-> f.items, next_items |-> f.next_items]

\* The loop of ZipLatestAll::poll_next, arm Inner::Filled, over the
\* completions in order q.
RECURSIVE ZipLatestAllDrain(_, _, _, _, _)
ZipLatestAllDrain(q, k, its, nx, yielded) ==
    IF k > Len(q) THEN [items |-> its, next_items |-> nx, yielded |-> yielded]
    ELSE LET r == IndexedPoll(q[k]) IN
         IF r.kind = "Some"
         THEN ZipLatestAllDrain(q, k + 1, [its EXCEPT ![r.i] = r.head],
                                nx \ {q[k]}, yielded \cup {q[k]})
         ELSE ZipLatestAllDrain(q, k + 1, its, nx \ {q[k]}, yielded)

\* ZipLatestAll::poll_next, arm Inner::Filled, over the completions in
\* order q.
ZipLatestAllFilled(q) ==
    LET d == ZipLatestAllDrain(q, 1, items, next_items, {})
        its == IF d.yielded # {} THEN <<clone(d.items)>> ELSE <<>>
    IN [res |-> IF its # <<>> THEN "Some"
                ELSE IF d.next_items = {} THEN "None" ELSE "Pending",
        out |-> its, items |-> d.items,
        next_items |-> d.next_items \cup d.yielded,
        polled |-> {q[k].s : k \in 1..Len(q)}]

\* The same loop over scripted sources.
RECURSIVE ZipLatestAllLoop(_)
ZipLatestAllLoop(S) ==
    CHOOSE R \in
      {CASE T.r = "Some" ->
              ZipLatestAllLoop([T EXCEPT !.items[T.e.i] = T.head,
                                         !.yielded = Append(@, T.e)])
         [] T.r = "Ended" -> ZipLatestAllLoop(T)
         [] OTHER -> T
       : T \in {FuturesUnorderedPoll(S, Cardinality(S.next_items), 0, 0)}} : TRUE

\* ZipLatestAll::poll_next, arm Inner::Filled, over scripted sources.
ZipLatestAllScriptedFilled ==
    LET T == ZipLatestAllLoop(
                 [queue |-> ready_queue, next_items |-> next_items,
                  items |-> items, yielded |-> <<>>,
                  count |-> src_count, st |-> src_st, script |-> script,
                  polled |-> {}, advanced |-> {}, ended |-> {},
                  r |-> "", e |-> IndexedStream(0, 0), head |-> NoVal])
        its == IF T.yielded # <<>> THEN <<clone(T.items)>> ELSE <<>>
    IN [res |-> IF its # <<>> THEN "Some"
                ELSE IF T.r = "None" THEN "None" ELSE "Pending",
        out |-> its, items |-> T.items,
        next_items |-> T.next_items \cup {T.yielded[k] : k \in 1..Len(T.yielded)},
        polled |-> T.polled]

----------------------------------------------------------------------------
(* Fork: the sink that hands each item to one of two destination sinks *)

None == [tag |-> "None", v |-> 0]

Left(x) == [tag |-> "Left", v |-> x]

Right(x) == [tag |-> "Right", v |-> x]

\* Poll<Result<(), Error>>; an error is told apart by the destination it
\* came from.
Ok == [kind |-> "Ok", side |-> "None"]

Pending == [kind |-> "Pending", side |-> "None"]

Err(side) == [kind |-> "Err", side |-> side]

\* What a destination can answer to poll_ready, poll_flush and poll_close,
\* and to start_send.
PollAnswers == {"Ok", "Pending", "Err"}

SendAnswers == {"Ok", "Err"}

\* The result of a destination operation of `side` that answered a.
Answer(side, a) ==
    CASE a = "Ok" -> Ok
      [] a = "Pending" -> Pending
      [] OTHER -> Err(side)

\* The fork S after it invoked operation op of destination `side`, which
\* answered a.
Invoked(S, side, op, a) ==
    [S EXCEPT !.invoked = Append(@, [side |-> side, op |-> op, answer |-> a])]

\* StartSend handing the item to the other destination.
StartSendSwapped(S, side, item, a) ==
    LET T == Invoked(S, side, "start_send", a) IN
    IF side = "Left" THEN [T EXCEPT !.right_sink.items = Append(@, item)]
    ELSE [T EXCEPT !.left_sink.items = Append(@, item)]

\* The fork S after left_sink().start_send(item) or
\* right_sink().start_send(item), which answered a.
StartSend(S, side, item, a) ==
    LET T == Invoked(S, side, "start_send", a) IN
    IF side = "Left" THEN [T EXCEPT !.left_sink.items = Append(@, item)]
    ELSE [T EXCEPT !.right_sink.items = Append(@, item)]

\* poll_ready handing over a copy of the buffered item and keeping it.
poll_ready_keeping(S, rr, rs) ==
    LET b == S.state.buffer IN
    IF b.tag = "None" THEN [S EXCEPT !.res = Ok]
    ELSE IF rr # "Ok"
    THEN [Invoked(S, b.tag, "poll_ready", rr) EXCEPT !.res = Answer(b.tag, rr)]
    ELSE [StartSend(Invoked(S, b.tag, "poll_ready", rr), b.tag, b.v, rs)
            EXCEPT !.res = Answer(b.tag, rs)]

\* Fork::poll_ready, the destination answering rr to poll_ready and rs to
\* start_send.
poll_ready(S, rr, rs) ==
    LET b == S.state.buffer IN
    IF b.tag = "None" THEN [S EXCEPT !.res = Ok]
    ELSE IF rr # "Ok"
    THEN [Invoked(S, b.tag, "poll_ready", rr) EXCEPT !.res = Answer(b.tag, rr)]
    ELSE [StartSend([Invoked(S, b.tag, "poll_ready", rr) EXCEPT !.state.buffer = None],
                    b.tag, b.v, rs)
            EXCEPT !.res = Answer(b.tag, rs)]

\* Both looking at the right result first.
BothRightFirst(left_res, right_res) ==
    IF right_res.kind = "Err" THEN right_res
    ELSE IF left_res.kind = "Err" THEN left_res
    ELSE IF left_res.kind = "Ok" /\ right_res.kind = "Ok" THEN Ok
    ELSE Pending

\* match (left_res?, right_res?).
Both(left_res, right_res) ==
    IF left_res.kind = "Err" THEN left_res
    ELSE IF right_res.kind = "Err" THEN right_res
    ELSE IF left_res.kind = "Ok" /\ right_res.kind = "Ok" THEN Ok
    ELSE Pending

\* Fork::poll_flush, the destinations answering lf and rf to poll_flush.
poll_flush(S, rr, rs, lf, rf) ==
    LET T == poll_ready(S, rr, rs) IN
    IF T.res.kind # "Ok" THEN T
    ELSE [Invoked(Invoked(T, "Left", "poll_flush", lf), "Right", "poll_flush", rf)
            EXCEPT !.res = Both(Answer("Left", lf), Answer("Right", rf))]

\* A destination's poll_close that answered a: the destination notes a
\* confirmed closure, and a call that came after one.
Close(sink, a) ==
    [sink EXCEPT !.closed = @ \/ a = "Ok", !.reclosed = @ \/ sink.closed]

\* CloseLeft without the left_closed flag.
CloseLeftForgetful(S, lc) ==
    [Invoked(S, "Left", "poll_close", lc)
       EXCEPT !.state.left_closed = (lc = "Ok"),
              !.left_sink = Close(@, lc)]

\* The left half of Fork::poll_close.
CloseLeft(S, lc) ==
    IF S.state.left_closed THEN S
    ELSE [Invoked(S, "Left", "poll_close", lc)
            EXCEPT !.state.left_closed = (lc = "Ok"),
                   !.left_sink = Close(@, lc)]

\* The right half of Fork::poll_close.
CloseRight(S, rc) ==
    IF S.state.right_closed THEN S
    ELSE [Invoked(S, "Right", "poll_close", rc)
            EXCEPT !.state.right_closed = (rc = "Ok"),
                   !.right_sink = Close(@, rc)]

\* Fork::poll_close, the destinations answering lc and rc to poll_close.
poll_close(S, rr, rs, lc, rc) ==
    LET T == poll_ready(S, rr, rs) IN
    IF T.res.kind # "Ok" THEN T
    ELSE [CloseRight(CloseLeft(T, lc), rc)
            EXCEPT !.res = Both(IF T.state.left_closed THEN Ok ELSE Answer("Left", lc),
                                IF T.state.right_closed THEN Ok ELSE Answer("Right", rc))]

\* The fork as a call finds it.
Fork ==
    [state |-> fork_state, left_sink |-> left_sink, right_sink |-> right_sink,
     invoked |-> <<>>, res |-> Ok]

\* The fork as call op leaves it.
Returned(op, S) ==
    /\ fork_state' = S.state
    /\ left_sink' = S.left_sink
    /\ right_sink' = S.right_sink
    /\ fork_call' = [op |-> op, res |-> S.res, invoked |-> S.invoked]

\* The caller polls the fork for readiness.
ForkPollReady ==
    /\ sut = "fork"
    /\ ~closing
    /\ \E rr \in PollAnswers, rs \in SendAnswers :
          \E S \in {poll_ready(Fork, rr, rs)} :
             /\ Returned("poll_ready", S)
             /\ permit' = (S.res.kind = "Ok")
    /\ UNCHANGED <<sut, stream_vars, yield_vars, sent, closing, panicked>>

\* The switch: any classification of the item.
switch(item) == {Left(item), Right(item)}

\* Fork::start_send, called by a caller that holds a Ready(Ok) of poll_ready.
ForkStartSend ==
    /\ sut = "fork"
    /\ ~closing
    /\ permit
    /\ Len(sent) < MaxItems
    /\ IF fork_state.buffer = None
       THEN \E e \in switch(Len(sent) + 1) :
               /\ fork_state' = [fork_state EXCEPT !.buffer = e]
               /\ sent' = Append(sent, e.tag)
               /\ UNCHANGED panicked
       ELSE /\ panicked' = TRUE
            /\ UNCHANGED <<fork_state, sent>>
    /\ permit' = FALSE
    /\ fork_call' = [op |-> "start_send", res |-> Ok, invoked |-> <<>>]
    /\ UNCHANGED <<sut, stream_vars, yield_vars, left_sink, right_sink, closing>>

\* The caller flushes the fork.
ForkPollFlush ==
    /\ sut = "fork"
    /\ ~closing
    /\ \E rr, lf, rf \in PollAnswers, rs \in SendAnswers :
          \E S \in {poll_flush(Fork, rr, rs, lf, rf)} : Returned("poll_flush", S)
    /\ UNCHANGED <<sut, stream_vars, yield_vars, sent, permit, closing, panicked>>

\* The caller closes the fork, or goes on closing it.
ForkPollClose ==
    /\ sut = "fork"
    /\ \E rr, lc, rc \in PollAnswers, rs \in SendAnswers :
          \E S \in {poll_close(Fork, rr, rs, lc, rc)} : Returned("poll_close", S)
    /\ closing' = TRUE
    /\ permit' = FALSE
    /\ UNCHANGED <<sut, stream_vars, yield_vars, sent, panicked>>

----------------------------------------------------------------------------
(* YieldNow: the future returned by yield_now *)

\* YieldNow::poll with a future that is Ready from its first poll on.
poll_ready_at_once(flag) == [res |-> "Ready", flag |-> flag, wake |-> 0]

\* YieldNow::poll on a future whose field is flag: the result, the field
\* afterwards, and the number of wake requests made during the poll.
poll(flag) ==
    IF flag THEN [res |-> "Ready", flag |-> flag, wake |-> 0]
    ELSE [res |-> "Pending", flag |-> TRUE, wake |-> 1]

\* One poll of the YieldNow by whoever holds it.
Polling(p) ==
    /\ yield_now' = p.flag
    /\ polls' = polls + 1
    /\ wakes' = wakes + p.wake
    /\ yield_res' = p.res

\* The executor polls a YieldNow that it drives alone.
YieldNowPoll ==
    /\ sut = "yield_now"
    /\ select_order = "alone"
    /\ polls < MaxPolls
    /\ Polling(poll(yield_now))
    /\ UNCHANGED <<sut, stream_vars, sink_vars, select_order, select_out>>

\* The two futures of the tests: ready(1), and yield_now().map(|_| 2).
ReadyOne == [res |-> "Ready", v |-> 1]

MapTwo(p) == [res |-> p.res, v |-> IF p.res = "Ready" THEN 2 ELSE 0]

\* Select::poll: the first future is polled, and the second one only if the
\* first one is not ready; the output of the one found ready is returned.
SelectPoll ==
    /\ sut = "yield_now"
    /\ select_order # "alone"
    /\ select_out.res # "Ready"
    /\ IF select_order = "ready_first"
       THEN /\ select_out' = ReadyOne
            /\ UNCHANGED <<yield_now, polls, wakes, yield_res>>
       ELSE \E p \in {poll(yield_now)} :
               /\ Polling(p)
               /\ select_out' = IF p.res = "Ready" THEN MapTwo(p) ELSE ReadyOne
    /\ UNCHANGED <<sut, stream_vars, sink_vars, select_order>>

----------------------------------------------------------------------------

NoCall == [arm |-> "None", polled |-> {}, advanced |-> {}, ended |-> {}]

\* The two sources of the tests named it_works: yield_on_none over
\* [Some(0), None, Some(1), None, None, Some(2)] and over
\* [None, Some(10), Some(11), Some(12), None, None, Some(13)].  A Some is an
\* item, a None one not-ready poll.
yield_on_none ==
    << <<"item", "pending", "item", "pending", "pending", "item">>,
       <<"pending", "item", "item", "item", "pending", "pending", "item">> >>

Init ==
    /\ \/ sut = "zip_latest_with" /\ nstreams = 2
       \/ sut = "zip_latest_with_all" /\ nstreams \in 0..MaxStreams
       \/ sut = "fork" /\ nstreams = 0
       \/ sut = "yield_now" /\ nstreams = 0
    /\ \/ script = <<>>
       \/ /\ nstreams = 2
          /\ script = [i \in 1..2 |-> Tail(yield_on_none[i])]
    /\ src_count = [i \in Sources |-> 0]
    /\ src_st = [i \in Sources |->
                    IF Scripted(i) THEN Head(yield_on_none[i]) ELSE "pending"]
    /\ collected = <<>>
    /\ state = Nothing
    /\ other_state = Nothing
    /\ stream_done = FALSE
    /\ other_done = FALSE
    /\ refreshed = <<Nothing, Nothing>>
    /\ inner = "Fill"
    /\ join_all = [i \in 1..nstreams |-> [tag |-> "Future", v |-> NoVal]]
    /\ items = <<>>
    /\ next_items = {}
    /\ ready_queue = <<>>
    /\ terminated = FALSE
    /\ res = "Unpolled"
    /\ out = <<>>
    /\ last_emit = <<>>
    /\ call = NoCall
    /\ after_none = FALSE
    /\ fork_state = [buffer |-> None, left_closed |-> FALSE, right_closed |-> FALSE]
    /\ left_sink = [items |-> <<>>, closed |-> FALSE, reclosed |-> FALSE]
    /\ right_sink = [items |-> <<>>, closed |-> FALSE, reclosed |-> FALSE]
    /\ sent = <<>>
    /\ permit = FALSE
    /\ closing = FALSE
    /\ panicked = FALSE
    /\ fork_call = [op |-> "new", res |-> Ok, invoked |-> <<>>]
    /\ yield_now = FALSE
    /\ polls = 0
    /\ wakes = 0
    /\ yield_res = "Unpolled"
    /\ IF sut = "yield_now"
       THEN select_order \in {"alone", "ready_first", "yield_first"}
       ELSE select_order = "alone"
    /\ select_out = [res |-> "Unpolled", v |-> 0]

Next ==
    \/ PairPoll
    \/ AllPoll
    \/ \E i \in Sources : SourceStep(i)
    \/ ForkPollReady
    \/ ForkStartSend
    \/ ForkPollFlush
    \/ ForkPollClose
    \/ YieldNowPoll
    \/ SelectPoll

Spec == Init /\ [][Next]_vars

\* The executor polls the combinator again whenever a poll can make
\* progress, and every source that is not ready eventually gets an item or
\* reaches its end.
FairSpec ==
    /\ Spec
    /\ WF_vars(PairPoll)
    /\ WF_vars(AllPoll)
    /\ \A i \in Sources : WF_vars(SourceStep(i))

\* Only the executor is fair: a source may stay not-ready forever.
PollFairSpec ==
    /\ Spec
    /\ WF_vars(PairPoll)
    /\ WF_vars(AllPoll)

----------------------------------------------------------------------------
(* Properties *)

Pairwise == sut = "zip_latest_with"

\* Source i has signalled its end to a poll.
SignalledEnd(i) == src_st[i] = "done"

\* Source i signalled its end without ever having produced an item.
EndedEmpty(i) == SignalledEnd(i) /\ src_count[i] = 0

\* The most recent item source i has produced (it has produced one).
Latest(i) == Item(i, src_count[i])

\* C1: a pairwise poll call emits exactly when, after its refresh attempts,
\* one side is New and the other is New or Yielded; the item is combine of
\* the two values held then, and both sides are left Yielded with them.
C1_EmitsExactlyWhenFresh ==
    Pairwise /\ call.arm = "Pair" =>
        LET a == refreshed[1]
            b == refreshed[2]
            fresh == \/ a.tag = "New" /\ b.tag \in {"New", "Yielded"}
                     \/ b.tag = "New" /\ a.tag \in {"New", "Yielded"}
        IN /\ (res = "Some") <=> fresh
           /\ (out # <<>>) <=> fresh
           /\ fresh => /\ out = <<combine(a.v, b.v)>>
                       /\ state = Yielded(a.v)
                       /\ other_state = Yielded(b.v)

\* C1 witness: a call emitted with the first side only Yielded (stale) and
\* the second side New.
C1_Witness ==
    /\ Pairwise
    /\ res = "Some"
    /\ refreshed[1].tag = "Yielded"
    /\ refreshed[2].tag = "New"
    /\ state = Yielded(refreshed[1].v)

\* C2: when a source of the pairwise combinator signals its end having
\* produced nothing, that very call returns Ready(None) without an item,
\* and the combinator has emitted and will emit no item at all.
C2_EmptySourceEndsAtOnce ==
    Pairwise =>
        /\ (\E i \in call.ended : src_count[i] = 0) => res = "None" /\ out = <<>>
        /\ (\E i \in {1, 2} : EndedEmpty(i)) => last_emit = <<>>

\* C2 witness: the second source ended empty in a call in which the first
\* side held a New value, and the call returned Ready(None).
C2_Witness ==
    /\ Pairwise
    /\ 2 \in call.ended
    /\ src_count[2] = 0
    /\ refreshed[1].tag = "New"
    /\ res = "None"

\* C3: with sources that keep becoming ready until they end, the pairwise
\* combinator eventually returns Ready(None); and when it has, with both
\* sources having produced, the last item it emitted pairs the last item of
\* the first source with the last item of the second.
C3_EndsWithLastPair ==
    /\ <>(~Pairwise \/ res = "None")
    /\ [](Pairwise /\ res = "None" /\ src_count[1] >= 1 /\ src_count[2] >= 1
            => last_emit = <<combine(Latest(1), Latest(2))>>)

\* C3 witness: both sources produced all their items and ended, the
\* combinator returned Ready(None), and its last item pairs the last ones.
C3_Witness ==
    /\ Pairwise
    /\ res = "None"
    /\ src_count[1] = MaxVals /\ SignalledEnd(1)
    /\ src_count[2] = MaxVals /\ SignalledEnd(2)
    /\ last_emit = <<combine(Item(1, MaxVals), Item(2, MaxVals))>>

\* C4: the pairwise combinator returns Ready(None) only when both sources
\* have signalled their end or one signalled it having produced nothing;
\* and once a source has ended after producing an item, each further item
\* of the other source is emitted, in the call that takes it, paired with
\* the ended source's last item.
C4_EndsOnlyWhenBothEndedOrEmpty ==
    Pairwise =>
        /\ res = "None" =>
              \/ SignalledEnd(1) /\ SignalledEnd(2)
              \/ EndedEmpty(1)
              \/ EndedEmpty(2)
        /\ (SignalledEnd(1) /\ src_count[1] >= 1 /\ 2 \in call.advanced) =>
              out = <<combine(Latest(1), Latest(2))>>
        /\ (SignalledEnd(2) /\ src_count[2] >= 1 /\ 1 \in call.advanced) =>
              out = <<combine(Latest(1), Latest(2))>>

(* N-ary combinator *)

Nary == sut = "zip_latest_with_all"

\* The vector holding, for each source in input order, its k-th item.
Firsts == [i \in 1..nstreams |-> Item(i, 1)]

\* The vector holding, for each source in input order, its latest item.
Latests == [i \in 1..nstreams |-> Latest(i)]

\* C5: the N-ary combinator emits nothing until every source has produced
\* its first item; while it fills, no source is taken past its first item;
\* and its first emission is the vector of the first items in input order.
C5_FirstEmissionIsTheFirsts ==
    Nary =>
        /\ last_emit # <<>> => \A i \in 1..nstreams : src_count[i] >= 1
        /\ inner = "Fill" =>
              /\ last_emit = <<>>
              /\ \A i \in 1..nstreams :
                    /\ src_count[i] <= 1
                    /\ src_count[i] = 1 => ~SignalledEnd(i)
        /\ call.arm = "Fill" /\ res = "Some" =>
              /\ out = <<combine_all(Firsts)>>
              /\ \A i \in 1..nstreams : src_count[i] = 1 /\ ~SignalledEnd(i)

\* C5 witness: the fill completed with the first emission in a call in
\* which only the first source delivered, the last source having delivered
\* its first item in an earlier call (completion order against input order).
C5_Witness ==
    /\ Nary
    /\ nstreams = MaxStreams
    /\ call.arm = "Fill"
    /\ call.advanced = {1}
    /\ res = "Some"
    /\ out = <<Firsts>>

\* C6: if a source of the N-ary combinator ended having produced nothing,
\* the combinator has emitted no item, whatever the other sources did.
C6_EmptySourceSilences ==
    Nary /\ (\E i \in 1..nstreams : EndedEmpty(i)) => last_emit = <<>> /\ out = <<>>

\* C6 witness: one source ended empty, another produced an item, and the
\* combinator ended without having emitted.
C6_Witness ==
    /\ Nary
    /\ \E i, j \in 1..nstreams : EndedEmpty(i) /\ src_count[j] >= 1
    /\ res = "None"
    /\ last_emit = <<>>

\* C7 (as claimed): once a source of the N-ary combinator has ended having
\* produced nothing, the combinator eventually returns Ready(None).
C7_EmptySourceEndsStream ==
    (Nary /\ \E i \in 1..nstreams : EndedEmpty(i)) ~> (res = "None")

\* The fill succeeded: the combinator is in its steady state with one entry
\* per source.
Steady == Nary /\ inner = "Filled" /\ \A i \in 1..nstreams : src_count[i] >= 1

\* C8: in the N-ary steady state, whenever a poll call has returned,
\* items[i] is the latest item source i has produced, for every i.
C8_ItemsAreTheLatest ==
    Steady => /\ Len(items) = nstreams
              /\ \A i \in 1..nstreams : items[i] = Latest(i)

\* C8 witness: a steady-state call in which only the last source delivered
\* a new item, the first source having ended earlier with its item frozen.
C8_Witness ==
    /\ Steady
    /\ call.arm = "Filled"
    /\ call.advanced = {nstreams}
    /\ nstreams >= 2
    /\ SignalledEnd(1)
    /\ 1 \notin call.ended
    /\ items = Latests

\* C9: a poll call of either combinator emits at most one item; a
\* steady-state N-ary call emits iff a source advanced during it; and the
\* one item of a call holds the new item of every source that advanced.
C9_OneItemPerCall ==
    /\ Len(out) <= 1
    /\ (res = "Some") <=> (Len(out) = 1)
    /\ call.arm = "Filled" => ((out # <<>>) <=> (call.advanced # {}))
    /\ (Pairwise /\ call.advanced = {1, 2}) => out # <<>>
    /\ out # <<>> => \A i \in call.advanced : out[1][i] = Latest(i)

\* C9 witness: a steady-state call in which two sources advanced emitted
\* exactly one snapshot.
C9_Witness ==
    /\ Nary
    /\ call.arm = "Filled"
    /\ Cardinality(call.advanced) >= 2
    /\ Len(out) = 1
    /\ res = "Some"

\* C10: with sources that keep becoming ready until they end, the N-ary
\* combinator eventually returns Ready(None); a steady-state call returns
\* Ready(None) only if no source advanced in it and every source has ended;
\* and then the last snapshot emitted holds every source's last item.
C10_EndsWithLatests ==
    /\ <>(~Nary \/ res = "None")
    /\ [](Steady /\ call.arm = "Filled" /\ res = "None" =>
            /\ call.advanced = {}
            /\ \A i \in 1..nstreams : SignalledEnd(i)
            /\ last_emit = <<combine_all(Latests)>>)

\* C10 witness: every source produced all its items and ended, and the
\* combinator returned Ready(None) after emitting the vector of last items.
C10_Witness ==
    /\ Steady
    /\ nstreams = MaxStreams
    /\ res = "None"
    /\ \A i \in 1..nstreams : SignalledEnd(i) /\ src_count[i] = MaxVals
    /\ last_emit = <<Latests>>

(* Scripted scenarios *)

\* The values of the scripted sources: 0, 1, 2 are the first source's items
\* in order, and 10, 11, 12, 13 the second source's.
ValA(n) == Item(1, n + 1)

ValB(n) == Item(2, n - 9)

IsPrefix(s, t) == Len(s) <= Len(t) /\ \A k \in 1..Len(s) : s[k] = t[k]

\* The pairwise combinator over the two scripted sources.
PairScenario == Pairwise /\ script # <<>>

ExpectedPairs ==
    <<combine(ValA(0), ValB(10)), combine(ValA(0), ValB(11)),
      combine(ValA(1), ValB(12)), combine(ValA(2), ValB(13))>>

\* C11: over the scripted sources A = 0, not-ready, 1, not-ready, not-ready,
\* 2, end and B = not-ready, 10, 11, 12, not-ready, not-ready, 13, end, the
\* pairwise combinator emits (0,10), (0,11), (1,12), (2,13) in this order,
\* nothing else, and then returns Ready(None).
C11_PairwiseScenario ==
    /\ [](PairScenario =>
            /\ IsPrefix(collected, ExpectedPairs)
            /\ res = "None" => collected = ExpectedPairs)
    /\ <>(~PairScenario \/ res = "None")

\* C11 witness: the scripted pairwise run has ended, both scripts used up,
\* with the four pairs collected.
C11_Witness ==
    /\ PairScenario
    /\ res = "None"
    /\ SignalledEnd(1) /\ SignalledEnd(2)
    /\ collected = ExpectedPairs

\* The N-ary combinator over the two scripted sources, as elements 0 and 1.
AllScenario == Nary /\ script # <<>>

ExpectedVectors ==
    <<combine_all(<<ValA(0), ValB(10)>>), combine_all(<<ValA(1), ValB(11)>>),
      combine_all(<<ValA(1), ValB(12)>>), combine_all(<<ValA(2), ValB(12)>>),
      combine_all(<<ValA(2), ValB(13)>>)>>

\* C12: over the same two scripted sources the N-ary combinator emits
\* [0,10], [1,11], [1,12], [2,12], [2,13] in this order, nothing else, and
\* then returns Ready(None).
C12_NaryScenario ==
    /\ [](AllScenario =>
            /\ IsPrefix(collected, ExpectedVectors)
            /\ res = "None" => collected = ExpectedVectors)
    /\ <>(~AllScenario \/ res = "None")

\* C12 witness: the scripted N-ary run has ended, both scripts used up,
\* with the five vectors collected.
C12_Witness ==
    /\ AllScenario
    /\ res = "None"
    /\ SignalledEnd(1) /\ SignalledEnd(2)
    /\ next_items = {}
    /\ collected = ExpectedVectors

(* Equivalence of the copying combinators *)

\* C13: every poll_next call of ZipLatestWith (with combine building the
\* pair) and of ZipLatestWithAll (with combine copying the slice) does what
\* the call of ZipLatest, respectively ZipLatestAll, does from the same
\* field values against the same sources: the same result and item, the
\* same fields afterwards, and the same polls of the sources.
C13_CopyingAddsNothing ==
    [][/\ PairPoll =>
             LET z == ZipLatestPollNext IN
             /\ <<state', other_state', stream_done', other_done'>>
                  = <<z.state, z.other_state, z.stream_done, z.other_done>>
             /\ <<res', out'>> = <<z.res, z.out>>
             /\ call' = Dealings("Pair", z.polled)
       /\ AllPoll /\ inner = "Fill" =>
             LET z == ZipLatestAllFill IN
             /\ <<res', out'>> = <<z.res, z.out>>
             /\ <<inner', items', next_items'>> = <<z.inner, z.items, z.next_items>>
       /\ AllPoll /\ inner = "Filled" /\ script = <<>> =>
             \E q \in Arrangements({e \in next_items : src_st[e.s] \in {"item", "end"}}) :
                LET z == ZipLatestAllFilled(q) IN
                /\ <<res', out'>> = <<z.res, z.out>>
                /\ <<items', next_items'>> = <<z.items, z.next_items>>
                /\ call' = Dealings("Filled", z.polled)
       /\ AllPoll /\ inner = "Filled" /\ script # <<>> =>
             LET z == ZipLatestAllScriptedFilled IN
             /\ <<res', out'>> = <<z.res, z.out>>
             /\ <<items', next_items'>> = <<z.items, z.next_items>>
             /\ call'.polled = z.polled
      ]_vars

\* C13 witness: a pairwise call emitted the pair of a New first value and a
\* stale second value, and left copies of both in the two sides.
C13_Witness ==
    /\ Pairwise
    /\ res = "Some"
    /\ refreshed[1].tag = "New"
    /\ refreshed[2].tag = "Yielded"
    /\ out = << <<refreshed[1].v, refreshed[2].v>> >>
    /\ state = Yielded(clone(refreshed[1].v))
    /\ other_state = Yielded(clone(refreshed[2].v))

(* Fork sink *)

Forking == sut = "fork"

\* The items the caller has sent that the switch gave to `side`, in order;
\* an item is named by its rank among the items sent.
Accepted(side) ==
    SelectSeq([k \in 1..Len(sent) |-> k], LAMBDA k : sent[k] = side)

\* The items handed to the destination of `side`, in order.
Delivered(side) == IF side = "Left" THEN left_sink.items ELSE right_sink.items

Front(q) == SubSeq(q, 1, Len(q) - 1)

\* The last call of the fork invoked operation op of destination `side`.
Asked(side, op) ==
    \E k \in DOMAIN fork_call.invoked :
        fork_call.invoked[k].side = side /\ fork_call.invoked[k].op = op

\* C14: each destination has been handed exactly the items the switch gave
\* to its side, each once and in the order they were sent, except the one
\* still in the buffer (which is the last item sent); and once poll_close
\* has returned Ready(Ok) no item is left in the buffer.
C14_EachItemToItsSideOnce ==
    Forking =>
        /\ fork_state.buffer # None =>
              /\ sent # <<>>
              /\ fork_state.buffer = [tag |-> sent[Len(sent)], v |-> Len(sent)]
        /\ \A side \in {"Left", "Right"} :
              Delivered(side) = IF fork_state.buffer.tag = side
                                THEN Front(Accepted(side)) ELSE Accepted(side)
        /\ fork_call.op = "poll_close" /\ fork_call.res = Ok =>
              \A side \in {"Left", "Right"} : Delivered(side) = Accepted(side)

\* C14 witness: the fork has been closed with success after every item was
\* sent, an item of each side among them.
C14_Witness ==
    /\ Forking
    /\ fork_call.op = "poll_close"
    /\ fork_call.res = Ok
    /\ Len(sent) = MaxItems
    /\ Len(left_sink.items) >= 1
    /\ Len(right_sink.items) >= 1
    /\ Len(left_sink.items) + Len(right_sink.items) = MaxItems

\* C15: poll_ready returns Ready(Ok) only with the buffer empty, a buffered
\* item it found having been accepted by its destination's start_send in
\* that call; so a caller that calls start_send only with a Ready(Ok) of
\* poll_ready in hand never fails the assertion of start_send.
C15_ReadyMeansBufferEmpty ==
    Forking =>
        /\ ~panicked
        /\ permit => fork_state.buffer = None
        /\ fork_call.op = "poll_ready" /\ fork_call.res = Ok =>
              /\ fork_state.buffer = None
              /\ fork_call.invoked # <<>> =>
                    /\ Len(fork_call.invoked) = 2
                    /\ fork_call.invoked[2].op = "start_send"
                    /\ fork_call.invoked[2].answer = "Ok"

\* C15 witness: poll_ready returned Ready(Ok) after handing the second item
\* sent to its destination, which accepted it.
C15_Witness ==
    /\ Forking
    /\ fork_call.op = "poll_ready"
    /\ fork_call.res = Ok
    /\ Len(sent) = 2
    /\ Asked(sent[2], "start_send")
    /\ permit

\* C16: poll_close returns Ready(Ok) only with the buffer empty and both
\* destinations having answered Ready(Ok) to their poll_close; left_closed
\* and right_closed remember exactly that, and a destination that has
\* answered Ready(Ok) to poll_close is not asked to close again.
C16_ClosedOncePerSide ==
    Forking =>
        /\ fork_call.op = "poll_close" /\ fork_call.res = Ok =>
              /\ fork_state.buffer = None
              /\ left_sink.closed
              /\ right_sink.closed
        /\ fork_state.left_closed = left_sink.closed
        /\ fork_state.right_closed = right_sink.closed
        /\ ~left_sink.reclosed
        /\ ~right_sink.reclosed

\* C16 witness: poll_close returned Ready(Ok) in a call that asked only the
\* right destination to close, the left one having confirmed earlier.
C16_Witness ==
    /\ Forking
    /\ fork_call.op = "poll_close"
    /\ fork_call.res = Ok
    /\ Asked("Right", "poll_close")
    /\ ~Asked("Left", "poll_close")

\* C17: a call of the fork in which a destination operation answered with
\* an error returns an error, the left destination's if the left one
\* failed in the call, and invokes no operation of a destination twice.
C17_DestinationErrorSurfaces ==
    Forking =>
        LET inv == fork_call.invoked
            Failed(side) == \E k \in DOMAIN inv :
                                inv[k].side = side /\ inv[k].answer = "Err"
        IN /\ Failed("Left") => fork_call.res = Err("Left")
           /\ Failed("Right") /\ ~Failed("Left") => fork_call.res = Err("Right")
           /\ fork_call.res.kind = "Err" => Failed(fork_call.res.side)
           /\ \A j, k \in DOMAIN inv :
                 inv[j].side = inv[k].side /\ inv[j].op = inv[k].op => j = k

\* C17 witness: a poll_flush call in which both destinations answered
\* poll_flush with an error returned the left one's.
C17_Witness ==
    /\ Forking
    /\ fork_call.op = "poll_flush"
    /\ \E j, k \in DOMAIN fork_call.invoked :
          /\ fork_call.invoked[j] = [side |-> "Left", op |-> "poll_flush", answer |-> "Err"]
          /\ fork_call.invoked[k] = [side |-> "Right", op |-> "poll_flush", answer |-> "Err"]
    /\ fork_call.res = Err("Left")

(* YieldNow *)

Yielding == sut = "yield_now"

\* C18: the first poll of a YieldNow returns Pending and makes the one
\* wake request the future ever makes; every later poll returns Ready; and
\* a select of it with a future that is ready at once returns that
\* future's output, 1, from its first poll, in either order.
C18_YieldsOnceThenReady ==
    Yielding =>
        /\ polls = 0 => ~yield_now /\ wakes = 0 /\ yield_res = "Unpolled"
        /\ polls = 1 => yield_now /\ wakes = 1 /\ yield_res = "Pending"
        /\ polls >= 2 => yield_now /\ wakes = 1 /\ yield_res = "Ready"
        /\ select_order # "alone" =>
              /\ select_out \in {[res |-> "Unpolled", v |-> 0], ReadyOne}
              /\ select_out = ReadyOne =>
                    polls = IF select_order = "yield_first" THEN 1 ELSE 0

\* C18 witness: the select with the YieldNow in first place polled it,
\* was told Pending with a wake request, and returned the other future's 1.
C18_Witness ==
    /\ Yielding
    /\ select_order = "yield_first"
    /\ select_out = ReadyOne
    /\ polls = 1
    /\ wakes = 1
    /\ yield_res = "Pending"

(* Polling after the end *)

\* C19 (as claimed): a poll_next call made after the combinator has returned
\* Ready(None) fails an assertion instead of returning a result.
C19_RepollFailsFast == after_none => res = "Panicked"

\* C19 (amended): a poll_next call made after the combinator has returned
\* Ready(None) is not refused: it returns Ready(None) again without an item.
C19_RepollReturnsNone == after_none => res = "None" /\ out = <<>>

\* C19 witness: after the pairwise combinator had ended because its first
\* source ended empty, a further call took an item from the second source
\* and returned Ready(None) again.
C19_Witness ==
    /\ Pairwise
    /\ after_none
    /\ EndedEmpty(1)
    /\ call.advanced = {2}
    /\ res = "None"
    /\ out = <<>>

(* Backpressure *)

\* The number of items taken from source i that no emitted item holds: the
\* items of a source enter the emissions in the order of their ranks.
Unused(i) ==
    src_count[i] - (IF last_emit = <<>> THEN 0 ELSE last_emit[1][i][2])

C21_OneAdvancePerSourcePerCall ==
    [][AllPoll /\ inner = "Filled" =>
          /\ \A i \in Sources : src_count'[i] - src_count[i] \in {0, 1}
          /\ call'.advanced = {i \in Sources : src_count'[i] = src_count[i] + 1}
          /\ call'.advanced \cap call'.ended = {}
          /\ Cardinality(call'.advanced) + Cardinality(call'.ended)
                <= Cardinality(next_items)
          /\ \A e \in next_items' : e \in next_items]_vars

\* C21 witness: a steady-state call took one item from the second scripted
\* source and emitted, although that source has its next item ready and
\* its future is back in next_items.
C21_Witness ==
    /\ AllScenario
    /\ call.arm = "Filled"
    /\ 2 \in call.advanced
    /\ src_st[2] = "item"
    /\ IndexedStream(2, 2) \in next_items
    /\ res = "Some"

\* C22: once the fill has succeeded, after every call items has one entry
\* per source, entry i being an item of source i, and next_items holds
\* exactly one future for each source that has not signalled its end, the
\* one of index i for source i, and none for a source that has.
C22_OneEntryAndOneFuturePerSource ==
    Steady =>
        /\ Len(items) = nstreams
        /\ \A i \in 1..nstreams : \E k \in 1..src_count[i] : items[i] = Item(i, k)
        /\ next_items = {IndexedStream(i, i) : i \in {j \in 1..nstreams : ~SignalledEnd(j)}}

\* C22 witness: in one steady-state call the first source signalled its
\* end and the second one delivered; items keeps both entries and
\* next_items only the second source's future.
C22_Witness ==
    /\ Steady
    /\ nstreams = 2
    /\ call.arm = "Filled"
    /\ call.ended = {1}
    /\ call.advanced = {2}
    /\ Len(items) = 2
    /\ next_items = {IndexedStream(2, 2)}

(* Wake-ups of the pairwise combinator *)

\* A pairwise call that returns Pending polled a source that had not
\* signalled its end and was not ready; and no pairwise call polls a
\* source that has signalled its end.
PendingHasWaker ==
    /\ res' = "Pending" => \E i \in call'.polled : src_st[i] = "pending"
    /\ \A i \in call'.polled : src_st[i] # "done"

\* C23 (as claimed): a pairwise call that returns Pending polled a live
\* source that was not ready, and leaves both freshness states as they
\* were when the call began; an ended source is never polled again.
C23_PendingLeavesStates ==
    [][PairPoll =>
          /\ PendingHasWaker
          /\ res' = "Pending" => state' = state /\ other_state' = other_state]_vars

\* C23 (amended): a pairwise call that returns Pending polled a live source
\* that was not ready, and leaves the state of each side as it was unless
\* that side's source delivered an item in the call, which the side then
\* holds as New; an ended source is never polled again.
C23_PendingKeepsOrStores ==
    [][PairPoll =>
          /\ PendingHasWaker
          /\ res' = "Pending" =>
                /\ state' = IF 1 \in call'.advanced
                            THEN New(Item(1, src_count'[1])) ELSE state
                /\ other_state' = IF 2 \in call'.advanced
                                  THEN New(Item(2, src_count'[2])) ELSE other_state]_vars

\* C23 witness: a pairwise call returned Pending after the first source
\* delivered its first item, now held as New, and the second source,
\* polled, was not ready.
C23_Witness ==
    /\ Pairwise
    /\ res = "Pending"
    /\ call.polled = {1, 2}
    /\ call.advanced = {1}
    /\ call.ended = {}
    /\ state = New(Item(1, 1))
    /\ other_state = Nothing

(* Permanence of the end *)

\* C24: a poll call of a pairwise or N-ary combinator whose previous call
\* returned Ready(None) returns Ready(None) too and emits nothing, whatever
\* the sources have produced in between.
C24_EndIsPermanent ==
    [][(PairPoll \/ AllPoll) /\ res = "None" =>
          /\ res' = "None"
          /\ out' = <<>>
          /\ last_emit' = last_emit
          /\ collected' = collected]_vars

\* C24 witness: the pairwise combinator ended because its second source
\* ended empty; the first source, still live, went on producing, and the
\* call that took its second item returned Ready(None) with nothing ever
\* emitted.
C24_Witness ==
    /\ Pairwise
    /\ after_none
    /\ EndedEmpty(2)
    /\ ~SignalledEnd(1)
    /\ call.advanced = {1}
    /\ src_count[1] = 2
    /\ res = "None"
    /\ last_emit = <<>>

(* is_terminated *)

\* C25: at every poll boundary of a pairwise combinator, is_terminated() is
\* true exactly when a poll_next call has returned Ready(None) (the latest
\* call then has, the end being permanent); so it is false before the first
\* call and as long as calls return items or Pending.
C25_PairTerminatedIffEnded ==
    Pairwise =>
        /\ is_terminated <=> res = "None"
        /\ ZipLatestIsTerminated <=> res = "None"
        /\ call = NoCall => ~is_terminated /\ ~ZipLatestIsTerminated

\* C25 witness: the pairwise combinator emitted, both sources then ended,
\* the call returned Ready(None) and is_terminated() is true.
C25_Witness ==
    /\ Pairwise
    /\ is_terminated
    /\ ZipLatestIsTerminated
    /\ res = "None"
    /\ last_emit # <<>>
    /\ stream_done
    /\ other_done

\* C26 (as claimed): at every poll boundary of an N-ary combinator whose
\* latest poll_next call returned Ready(None), is_terminated() is true; and
\* is_terminated() is false while a source is still held, that is, while a
\* later call could emit.
C26_NaryTerminatedAfterEnd ==
    Nary =>
        /\ res = "None" => ZipLatestWithAllIsTerminated /\ ZipLatestAllIsTerminated
        /\ Owned # {} => ~ZipLatestWithAllIsTerminated /\ ~ZipLatestAllIsTerminated

(* No sources *)

\* C27: an N-ary combinator built from no sources emits on its first
\* poll_next call exactly one item, the combine of the empty vector, and
\* every later call returns Ready(None) with no item.
C27_NoSourcesEmitOnce ==
    Nary /\ nstreams = 0 =>
        \/ call = NoCall /\ res = "Unpolled" /\ last_emit = <<>>
        \/ /\ call.arm = "Fill"
           /\ res = "Some"
           /\ out = <<combine_all(<<>>)>>
           /\ inner = "Filled"
           /\ ~after_none
        \/ /\ call.arm = "Filled"
           /\ res = "None"
           /\ out = <<>>
           /\ last_emit = <<combine_all(<<>>)>>

\* C27 witness: built from no sources, the combinator emitted the combine
\* of the empty vector, returned Ready(None) and was polled once more.
C27_Witness ==
    /\ Nary
    /\ nstreams = 0
    /\ after_none
    /\ res = "None"
    /\ call.arm = "Filled"
    /\ last_emit = <<combine_all(<<>>)>>

(* No value skipped *)

\* The rank, among the items of source i, of the one the last emitted item
\* holds (0 before the first emission).
Rank(i) == IF last_emit = <<>> THEN 0 ELSE last_emit[1][i][2]

\* The combinator holds the latest item of source i for an emission to
\* come: the pairwise one in the side's state New, the N-ary one as the
\* output of the source's future in the JoinAll.
Held(i) ==
    IF Pairwise THEN (IF i = 1 THEN state ELSE other_state) = New(Latest(i))
    ELSE inner = "Fill" /\ join_all[i] = [tag |-> "Some", v |-> Latest(i)]

\* C28: from one emitted item to the next, the item of each source is the
\* same or the source's next one, the first emission holding each
\* source's first item; and as long as no source has ended without
\* producing, every item taken from a source has been emitted, but for the
\* latest one while the combinator holds it for the next emission; none is
\* held once the combinator has returned Ready(None).
C28_NoValueSkipped ==
    /\ [][PairPoll \/ AllPoll =>
             \A i \in 1..nstreams : Rank(i)' - Rank(i) \in {0, 1}]_vars
    /\ []((Pairwise \/ Nary) /\ (\A i \in 1..nstreams : ~EndedEmpty(i)) =>
             /\ \A i \in 1..nstreams :
                   Unused(i) = 0 \/ (Unused(i) = 1 /\ Held(i))
             /\ res = "None" => \A i \in 1..nstreams : Unused(i) = 0)

\* C28 witness: the pairwise combinator ended after taking three items
\* from the first source and two from the second, all of which it emitted,
\* the last emission pairing the last of each.
C28_Witness ==
    /\ Pairwise
    /\ res = "None"
    /\ src_count[1] = 3
    /\ src_count[2] = 2
    /\ Unused(1) = 0
    /\ Unused(2) = 0
    /\ last_emit = <<combine(Item(1, 3), Item(2, 2))>>

(* Freshness states at the poll boundaries *)

\* C29: whenever no pairwise call is running, the two freshness states are
\* both Yielded, or neither is Yielded and at most one is New; and a call
\* that takes a side from New or Yielded to Nothing returns Ready(None).
C29_FreshnessPairs ==
    /\ [](Pairwise =>
             \/ state.tag = "Yielded" /\ other_state.tag = "Yielded"
             \/ /\ state.tag # "Yielded"
                /\ other_state.tag # "Yielded"
                /\ ~(state.tag = "New" /\ other_state.tag = "New"))
    /\ [][PairPoll =>
             /\ state.tag # "Nothing" /\ state'.tag = "Nothing" => res' = "None"
             /\ other_state.tag # "Nothing" /\ other_state'.tag = "Nothing"
                   => res' = "None"]_vars

\* C29 witness: both sides were Yielded when the call began, both sources
\* then signalled their end, and the call that returned Ready(None) took
\* both sides back to Nothing.
C29_Witness ==
    /\ Pairwise
    /\ res = "None"
    /\ ~after_none
    /\ refreshed[1].tag = "Yielded"
    /\ refreshed[2].tag = "Yielded"
    /\ state = Nothing
    /\ other_state = Nothing

\* C4 witness: the first source ended in an earlier call after producing,
\* and the second source's new item was emitted with the first's last one.
C4_Witness ==
    /\ Pairwise
    /\ SignalledEnd(1)
    /\ src_count[1] >= 1
    /\ 1 \notin call.polled
    /\ 2 \in call.advanced
    /\ res = "Some"
    /\ ~SignalledEnd(2)

====
